---------------------------- MODULE Spec2Model ----------------------------
(*************************************************************************)
(* A model of the video compressor: the settings resolver                *)
(* (compression_settings.py), the command builder, the process runner    *)
(* and the batch orchestrator (video_processor.py) and the progress      *)
(* tracker (progress_tracker.py).                                        *)
(*                                                                       *)
(* Numbers that are floats in the program (target size in MB, the        *)
(* compression ratio) are exact rationals num/den here; IEEE rounding is *)
(* not modelled.  Durations and frame rates are whole numbers.           *)
(*************************************************************************)
EXTENDS Integers, Sequences, FiniteSets, TLC

(*************************************************************************)
(* Bounds of the model.                                                  *)
(*************************************************************************)
MaxFiles == 2          \* longest list of input files of a batch
MaxLines == 2          \* most diagnostic lines one encoder child writes
PipeCap == 1           \* lines the diagnostic pipe holds before a write blocks
MaxTargetMB == 10      \* largest target-size numerator
MaxRatioTenths == 10   \* largest compression ratio, in tenths
MaxFrames == 3         \* largest total_frames of a tracker driven on its own

(*************************************************************************)
(* Optional numbers (Optional[float]): None, or the rational num/den.    *)
(*************************************************************************)
None == [some |-> FALSE, num |-> 0, den |-> 1]
Some(n, d) == [some |-> TRUE, num |-> n, den |-> d]
\* Python truthiness of an Optional[float]: None and 0.0 are false.
Truthy(x) == x.some /\ x.num # 0
\* int(): truncation toward zero of a / b, b > 0.
Trunc(a, b) == IF a >= 0 THEN a \div b ELSE -((-a) \div b)
Max(a, b) == IF a >= b THEN a ELSE b
Min(a, b) == IF a <= b THEN a ELSE b
\* s1 <= s2 for two supplied rationals.
RatLeq(s1, s2) == s1.num * s2.den <= s2.num * s1.den

Digit(d) ==
    CASE d = 0 -> "0" [] d = 1 -> "1" [] d = 2 -> "2" [] d = 3 -> "3"
      [] d = 4 -> "4" [] d = 5 -> "5" [] d = 6 -> "6" [] d = 7 -> "7"
      [] d = 8 -> "8" [] d = 9 -> "9"
RECURSIVE IntToStr(_)
\* str(n) / f"{n}": the decimal digits of an integer.
IntToStr(n) ==
    IF n < 0 THEN "-" \o IntToStr(-n)
    ELSE IF n < 10 THEN Digit(n)
    ELSE IntToStr(n \div 10) \o Digit(n % 10)

(*************************************************************************)
(* compression_settings.py                                               *)
(*************************************************************************)
QUALITY_PRESETS ==
    [ultra  |-> [crf |-> 15, preset |-> "slow",   bitrate_factor |-> Some(9, 10)],
     high   |-> [crf |-> 18, preset |-> "medium", bitrate_factor |-> Some(8, 10)],
     medium |-> [crf |-> 23, preset |-> "medium", bitrate_factor |-> Some(6, 10)],
     low    |-> [crf |-> 28, preset |-> "fast",   bitrate_factor |-> Some(4, 10)]]

SUPPORTED_CODECS ==
    [libx264 |-> [name |-> "H.264/AVC",  file_extension |-> "mp4"],
     libx265 |-> [name |-> "H.265/HEVC", file_extension |-> "mp4"]]

MIN_BITRATE_KBPS == 100

validate_quality(q) == q \in DOMAIN QUALITY_PRESETS

\* validate_codec knowing one codec only.
validate_codec_x264only(c) == c = "libx264"

validate_codec(c) == c \in DOMAIN SUPPORTED_CODECS

\* A call's outcome: a returned value or a raised exception.
Return(v) == [raised |-> "none", value |-> v]
Raise(e) == [raised |-> e, value |-> 0]

\* calculate_target_bitrate without the final max(): a plausible slip.
calculate_target_bitrate_nofloor(video_info, target_size_mb, compression_ratio) ==
    IF Truthy(target_size_mb)
    THEN IF video_info.duration = 0 THEN Raise("ZeroDivisionError")
         ELSE Return(Trunc(target_size_mb.num * 8 * 1024 * 1024 * 9,
                           target_size_mb.den * 10 * video_info.duration))
    ELSE IF Truthy(compression_ratio)
    THEN Return(Trunc(video_info.bitrate * compression_ratio.num, compression_ratio.den))
    ELSE Return(video_info.bitrate)

\* calculate_target_bitrate falling back to the source's bitrate, instead of
\* the floor, when the computed bitrate is below the floor.
calculate_target_bitrate_fallback(video_info, target_size_mb, compression_ratio) ==
    LET r == calculate_target_bitrate_nofloor(video_info, target_size_mb, compression_ratio) IN
    IF r.raised # "none" THEN r
    ELSE IF r.value < MIN_BITRATE_KBPS * 1000
    THEN Return(Max(video_info.bitrate, MIN_BITRATE_KBPS * 1000))
    ELSE r

\* calculate_target_bitrate without the 10% headroom for audio and container.
calculate_target_bitrate_noheadroom(video_info, target_size_mb, compression_ratio) ==
    IF Truthy(target_size_mb)
    THEN Return(Max(Trunc(target_size_mb.num * 8 * 1024 * 1024,
                          target_size_mb.den * video_info.duration),
                    MIN_BITRATE_KBPS * 1000))
    ELSE IF Truthy(compression_ratio)
    THEN Return(Max(Trunc(video_info.bitrate * compression_ratio.num, compression_ratio.den),
                    MIN_BITRATE_KBPS * 1000))
    ELSE Return(Max(video_info.bitrate, MIN_BITRATE_KBPS * 1000))

\* calculate_target_bitrate ignoring the ratio.
calculate_target_bitrate_noratio(video_info, target_size_mb, compression_ratio) ==
    IF Truthy(target_size_mb)
    THEN Return(Max(Trunc(target_size_mb.num * 8 * 1024 * 1024 * 9,
                          target_size_mb.den * 10 * video_info.duration),
                    MIN_BITRATE_KBPS * 1000))
    ELSE Return(Max(video_info.bitrate, MIN_BITRATE_KBPS * 1000))

\* calculate_target_bitrate testing the ratio before the target size.
calculate_target_bitrate_ratiofirst(video_info, target_size_mb, compression_ratio) ==
    LET min_bitrate_bps == MIN_BITRATE_KBPS * 1000 IN
    IF Truthy(compression_ratio)
    THEN Return(Max(Trunc(video_info.bitrate * compression_ratio.num,
                          compression_ratio.den),
                    min_bitrate_bps))
    ELSE IF Truthy(target_size_mb)
    THEN IF video_info.duration = 0 THEN Raise("ZeroDivisionError")
         ELSE Return(Max(Trunc(target_size_mb.num * 8 * 1024 * 1024 * 9,
                               target_size_mb.den * 10 * video_info.duration),
                         min_bitrate_bps))
    ELSE Return(Max(video_info.bitrate, min_bitrate_bps))

calculate_target_bitrate(video_info, target_size_mb, compression_ratio) ==
    LET min_bitrate_bps == MIN_BITRATE_KBPS * 1000 IN
    IF Truthy(target_size_mb)
    THEN \* target_size_bits = target_size_mb * 8 * 1024 * 1024
         \* video_bitrate = int((target_size_bits * 0.9) / duration)
         IF video_info.duration = 0 THEN Raise("ZeroDivisionError")
         ELSE Return(Max(Trunc(target_size_mb.num * 8 * 1024 * 1024 * 9,
                               target_size_mb.den * 10 * video_info.duration),
                         min_bitrate_bps))
    ELSE IF Truthy(compression_ratio)
    THEN \* video_bitrate = int(original_bitrate * compression_ratio)
         Return(Max(Trunc(video_info.bitrate * compression_ratio.num,
                          compression_ratio.den),
                    min_bitrate_bps))
    ELSE Return(Max(video_info.bitrate, min_bitrate_bps))

\* The settings dictionary before the bitrate entries are added.
BaseSettings(quality, codec) ==
    [codec        |-> codec,
     crf          |-> QUALITY_PRESETS[quality].crf,
     preset       |-> QUALITY_PRESETS[quality].preset,
     quality_name |-> quality,
     codec_name   |-> SUPPORTED_CODECS[codec].name]

\* get_compression_settings entering bitrate mode for a target size only.
get_compression_settings_sizeonly(quality, codec, video_info, target_size_mb, compression_ratio) ==
    IF ~validate_quality(quality) THEN Raise("ValueError")
    ELSE IF ~validate_codec(codec) THEN Raise("ValueError")
    ELSE IF Truthy(target_size_mb)
    THEN LET r == calculate_target_bitrate(video_info, target_size_mb, compression_ratio) IN
         IF r.raised # "none" THEN r
         ELSE Return(BaseSettings(quality, codec) @@
                     [bitrate |-> IntToStr(r.value \div 1000) \o "k",
                      target_bitrate_bps |-> r.value])
    ELSE Return(BaseSettings(quality, codec))

\* get_compression_settings entering bitrate mode whatever was requested.
get_compression_settings_always(quality, codec, video_info, target_size_mb, compression_ratio) ==
    IF ~validate_quality(quality) THEN Raise("ValueError")
    ELSE IF ~validate_codec(codec) THEN Raise("ValueError")
    ELSE LET ratio == IF ~Truthy(compression_ratio)
                      THEN QUALITY_PRESETS[quality].bitrate_factor
                      ELSE compression_ratio
             r == calculate_target_bitrate(video_info, target_size_mb, ratio)
         IN IF r.raised # "none" THEN r
            ELSE Return(BaseSettings(quality, codec) @@
                        [bitrate |-> IntToStr(r.value \div 1000) \o "k",
                         target_bitrate_bps |-> r.value])

\* get_compression_settings rounding the bitrate to the nearest kilobit.
get_compression_settings_rounded(quality, codec, video_info, target_size_mb, compression_ratio) ==
    IF ~validate_quality(quality) THEN Raise("ValueError")
    ELSE IF ~validate_codec(codec) THEN Raise("ValueError")
    ELSE IF Truthy(target_size_mb) \/ Truthy(compression_ratio)
    THEN LET ratio == IF ~Truthy(compression_ratio)
                      THEN QUALITY_PRESETS[quality].bitrate_factor
                      ELSE compression_ratio
             r == calculate_target_bitrate(video_info, target_size_mb, ratio)
         IN IF r.raised # "none" THEN r
            ELSE Return(BaseSettings(quality, codec) @@
                        [bitrate |-> IntToStr((r.value + 500) \div 1000) \o "k",
                         target_bitrate_bps |-> r.value])
    ELSE Return(BaseSettings(quality, codec))

\* get_compression_settings testing `is not None` instead of truthiness.
get_compression_settings_isnotnone(quality, codec, video_info, target_size_mb, compression_ratio) ==
    IF ~validate_quality(quality) THEN Raise("ValueError")
    ELSE IF ~validate_codec(codec) THEN Raise("ValueError")
    ELSE IF target_size_mb.some \/ compression_ratio.some
    THEN LET ratio == IF ~compression_ratio.some
                      THEN QUALITY_PRESETS[quality].bitrate_factor
                      ELSE compression_ratio
             r == calculate_target_bitrate(video_info, target_size_mb, ratio)
         IN IF r.raised # "none" THEN r
            ELSE Return(BaseSettings(quality, codec) @@
                        [bitrate |-> IntToStr(r.value \div 1000) \o "k",
                         target_bitrate_bps |-> r.value])
    ELSE Return(BaseSettings(quality, codec))

\* get_compression_settings writing the bitrate in units of 1024 bits.
get_compression_settings_kibi(quality, codec, video_info, target_size_mb, compression_ratio) ==
    IF ~validate_quality(quality) THEN Raise("ValueError")
    ELSE IF ~validate_codec(codec) THEN Raise("ValueError")
    ELSE IF Truthy(target_size_mb) \/ Truthy(compression_ratio)
    THEN LET ratio == IF ~Truthy(compression_ratio)
                      THEN QUALITY_PRESETS[quality].bitrate_factor
                      ELSE compression_ratio
             r == calculate_target_bitrate(video_info, target_size_mb, ratio)
         IN IF r.raised # "none" THEN r
            ELSE Return(BaseSettings(quality, codec) @@
                        [bitrate |-> IntToStr(r.value \div 1024) \o "k",
                         target_bitrate_bps |-> r.value])
    ELSE Return(BaseSettings(quality, codec))

get_compression_settings(quality, codec, video_info, target_size_mb, compression_ratio) ==
    IF ~validate_quality(quality) THEN Raise("ValueError")
    ELSE IF ~validate_codec(codec) THEN Raise("ValueError")
    ELSE IF Truthy(target_size_mb) \/ Truthy(compression_ratio)
    THEN LET ratio == IF ~Truthy(compression_ratio)
                      THEN QUALITY_PRESETS[quality].bitrate_factor
                      ELSE compression_ratio
             r == calculate_target_bitrate(video_info, target_size_mb, ratio)
         IN IF r.raised # "none" THEN r
            ELSE Return(BaseSettings(quality, codec) @@
                        [bitrate |-> IntToStr(r.value \div 1000) \o "k",
                         target_bitrate_bps |-> r.value])
    ELSE Return(BaseSettings(quality, codec))

get_codec_specific_params(codec) ==
    IF codec = "libx265" THEN <<"-x265-params", "log-level=error">>
    ELSE IF codec = "libx264" THEN <<"-movflags", "+faststart">>
    ELSE <<>>

(*************************************************************************)
(* video_processor.py: the command builder                               *)
(*************************************************************************)
ffmpeg_path == "/usr/bin/ffmpeg"

\* build_ffmpeg_command copying the metadata whatever the flag says.
build_ffmpeg_command_alwaysmeta(input_path, output_path, settings, preserve_metadata) ==
    <<ffmpeg_path, "-i", input_path, "-c:v", settings.codec,
      "-preset", settings.preset, "-y">>
    \o (IF "bitrate" \in DOMAIN settings
        THEN <<"-b:v", settings.bitrate, "-maxrate", settings.bitrate>>
        ELSE <<"-crf", IntToStr(settings.crf)>>)
    \o get_codec_specific_params(settings.codec)
    \o <<"-c:a", "aac", "-b:a", "128k">>
    \o <<"-map_metadata", "0">>
    \o <<output_path>>

build_ffmpeg_command(input_path, output_path, settings, preserve_metadata) ==
    <<ffmpeg_path, "-i", input_path, "-c:v", settings.codec,
      "-preset", settings.preset, "-y">>
    \o (IF "bitrate" \in DOMAIN settings
        THEN <<"-b:v", settings.bitrate, "-maxrate", settings.bitrate>>
        ELSE <<"-crf", IntToStr(settings.crf)>>)
    \o get_codec_specific_params(settings.codec)
    \o <<"-c:a", "aac", "-b:a", "128k">>
    \o (IF preserve_metadata THEN <<"-map_metadata", "0">> ELSE <<>>)
    \o <<output_path>>

(*************************************************************************)
(* file_utils.py, on the sample paths of the model.  A path is a string; *)
(* pathlib's suffix and stem are tabulated for the sample paths.         *)
(*************************************************************************)
SUPPORTED_FORMATS == {".mp4", ".avi", ".mov", ".mkv", ".wmv", ".flv", ".webm", ".m4v"}

BatchPaths == {"videos/a.mp4", "clips/a.MKV", "notes.txt"}

\* Paths given to is_supported_format and generate_output_path.
FormatPaths ==
    BatchPaths \cup
    {"video.mp4", "VIDEO.MP4", "clip.Avi", "m.mov", "a.b.mkv", "z.wmv",
     "y.flv", "a.webm", "x.m4v", "noext", ".mp4", "dir.mp4/file",
     "doc.txt", "a.mp4x", "song.mp3", "my:clip*.mp4"}

\* The characters of the sample strings.
Chars(str) ==
    CASE str = "videos/a.mp4" -> <<"v", "i", "d", "e", "o", "s", "/", "a", ".", "m", "p", "4">>
      [] str = "clips/a.MKV" -> <<"c", "l", "i", "p", "s", "/", "a", ".", "M", "K", "V">>
      [] str = "notes.txt" -> <<"n", "o", "t", "e", "s", ".", "t", "x", "t">>
      [] str = "video.mp4" -> <<"v", "i", "d", "e", "o", ".", "m", "p", "4">>
      [] str = "VIDEO.MP4" -> <<"V", "I", "D", "E", "O", ".", "M", "P", "4">>
      [] str = "clip.Avi" -> <<"c", "l", "i", "p", ".", "A", "v", "i">>
      [] str = "m.mov" -> <<"m", ".", "m", "o", "v">>
      [] str = "a.b.mkv" -> <<"a", ".", "b", ".", "m", "k", "v">>
      [] str = "z.wmv" -> <<"z", ".", "w", "m", "v">>
      [] str = "y.flv" -> <<"y", ".", "f", "l", "v">>
      [] str = "a.webm" -> <<"a", ".", "w", "e", "b", "m">>
      [] str = "x.m4v" -> <<"x", ".", "m", "4", "v">>
      [] str = "noext" -> <<"n", "o", "e", "x", "t">>
      [] str = ".mp4" -> <<".", "m", "p", "4">>
      [] str = "dir.mp4/file" -> <<"d", "i", "r", ".", "m", "p", "4", "/", "f", "i", "l", "e">>
      [] str = "doc.txt" -> <<"d", "o", "c", ".", "t", "x", "t">>
      [] str = "a.mp4x" -> <<"a", ".", "m", "p", "4", "x">>
      [] str = "song.mp3" -> <<"s", "o", "n", "g", ".", "m", "p", "3">>
      [] str = "my:clip*.mp4" -> <<"m", "y", ":", "c", "l", "i", "p", "*", ".", "m", "p", "4">>
      [] str = "_compressed" -> <<"_", "c", "o", "m", "p", "r", "e", "s", "s", "e", "d">>
      [] str = "unnamed" -> <<"u", "n", "n", "a", "m", "e", "d">>

RECURSIVE Join(_)
\* The string a sequence of characters spells.
Join(chars) == IF chars = <<>> THEN "" ELSE Head(chars) \o Join(Tail(chars))

\* str.upper() and str.lower() on the letters a..z; every other character is
\* left as it is.
LowerLetters ==
    <<"a", "b", "c", "d", "e", "f", "g", "h", "i", "j", "k", "l", "m",
      "n", "o", "p", "q", "r", "s", "t", "u", "v", "w", "x", "y", "z">>
UpperLetters ==
    <<"A", "B", "C", "D", "E", "F", "G", "H", "I", "J", "K", "L", "M",
      "N", "O", "P", "Q", "R", "S", "T", "U", "V", "W", "X", "Y", "Z">>
UpperCh(c) ==
    IF \E i \in 1..26 : LowerLetters[i] = c
    THEN UpperLetters[CHOOSE i \in 1..26 : LowerLetters[i] = c]
    ELSE c
Upper(str) == [i \in 1..Len(str) |-> UpperCh(str[i])]
LowerCh(c) ==
    IF \E i \in 1..26 : UpperLetters[i] = c
    THEN LowerLetters[CHOOSE i \in 1..26 : UpperLetters[i] = c]
    ELSE c
Lower(str) == [i \in 1..Len(str) |-> LowerCh(str[i])]

\* The last position of character c in chars, 0 when it does not occur.
RFind(chars, c) ==
    IF \E i \in 1..Len(chars) : chars[i] = c
    THEN CHOOSE i \in 1..Len(chars) :
             chars[i] = c /\ \A j \in (i + 1)..Len(chars) : chars[j] # c
    ELSE 0

RECURSIVE StripSlashes(_)
\* pathlib drops the trailing separators of a path.
StripSlashes(chars) ==
    IF Len(chars) > 1 /\ chars[Len(chars)] = "/"
    THEN StripSlashes(SubSeq(chars, 1, Len(chars) - 1))
    ELSE chars

\* Path(p).name: the last component of the path.
PathName(chars) ==
    LET p == StripSlashes(chars)
    IN SubSeq(p, RFind(p, "/") + 1, Len(p))

\* Where the suffix of a file name starts: at its last dot, unless that dot
\* is the first or the last character of the name; 0 when there is no suffix.
SuffixStart(name) ==
    LET i == RFind(name, ".")
    IN IF 1 < i /\ i < Len(name) THEN i ELSE 0

\* Path(filepath).suffix
PathSuffix(filepath) ==
    LET name == PathName(Chars(filepath))
        i == SuffixStart(name)
    IN IF i = 0 THEN <<>> ELSE SubSeq(name, i, Len(name))

\* Path(filepath).stem
PathStem(filepath) ==
    LET name == PathName(Chars(filepath))
        i == SuffixStart(name)
    IN IF i = 0 THEN name ELSE SubSeq(name, 1, i - 1)

\* is_supported_format accepting every path.
is_supported_format_any(filepath) == TRUE

\* is_supported_format comparing the suffix as it is written.
is_supported_format_nolower(filepath) ==
    Join(PathSuffix(filepath)) \in SUPPORTED_FORMATS

is_supported_format(filepath) ==
    Join(Lower(PathSuffix(filepath))) \in SUPPORTED_FORMATS

RECURSIVE Collapse(_)
\* while '__' in s: s = s.replace('__', '_')
Collapse(chars) ==
    IF Len(chars) < 2 THEN chars
    ELSE IF chars[1] = "_" /\ chars[2] = "_" THEN Collapse(Tail(chars))
    ELSE <<chars[1]>> \o Collapse(Tail(chars))

RECURSIVE Strip(_, _)
\* str.strip(set): the characters of set removed from both ends.
Strip(chars, set) ==
    IF chars = <<>> THEN chars
    ELSE IF chars[1] \in set THEN Strip(Tail(chars), set)
    ELSE IF chars[Len(chars)] \in set THEN Strip(SubSeq(chars, 1, Len(chars) - 1), set)
    ELSE chars

\* FileUtils.get_safe_filename
get_safe_filename(filename) ==
    LET unsafe_chars == {"<", ">", ":", "\"", "/", "\\", "|", "?", "*"}
        replaced == [i \in 1..Len(filename) |->
                        IF filename[i] \in unsafe_chars THEN "_" ELSE filename[i]]
        safe_filename == Strip(Collapse(replaced), {"_", "."})
    IN IF safe_filename = <<>> THEN Chars("unnamed") ELSE safe_filename

\* generate_output_path keeping the input's extension in the name.
generate_output_path_keepext(input_path, output_dir, suffix, output_format) ==
    output_dir \o "/"
        \o Join(get_safe_filename(PathName(Chars(input_path)) \o Chars(suffix)))
        \o "." \o output_format

\* FileUtils.generate_output_path; os.path.join puts one separator between
\* the directory and the file name.
generate_output_path(input_path, output_dir, suffix, output_format) ==
    output_dir \o "/"
        \o Join(get_safe_filename(PathStem(input_path) \o Chars(suffix)))
        \o "." \o output_format

(*************************************************************************)
(* progress_tracker.py.  A diagnostic line is a sequence of characters.  *)
(*************************************************************************)
IsDigitCh(c) == c \in {"0", "1", "2", "3", "4", "5", "6", "7", "8", "9"}
IsSpaceCh(c) == c \in {" ", "\t", "\n", "\r", "\f"}
DigitVal(c) ==
    CASE c = "0" -> 0 [] c = "1" -> 1 [] c = "2" -> 2 [] c = "3" -> 3
      [] c = "4" -> 4 [] c = "5" -> 5 [] c = "6" -> 6 [] c = "7" -> 7
      [] c = "8" -> 8 [] c = "9" -> 9

RECURSIVE SkipSpaces(_, _)
\* \s* : the first position at or after i that holds no white space.
SkipSpaces(line, i) ==
    IF i <= Len(line) /\ IsSpaceCh(line[i]) THEN SkipSpaces(line, i + 1) ELSE i

RECURSIVE ReadDigits(_, _, _)
\* int(group(1)) of (\d+) starting at i.
ReadDigits(line, i, acc) ==
    IF i <= Len(line) /\ IsDigitCh(line[i])
    THEN ReadDigits(line, i + 1, acc * 10 + DigitVal(line[i]))
    ELSE acc

\* Whether r'frame=\s*(\d+)' matches at position i.
MatchAt(line, i) ==
    /\ i + 5 <= Len(line)
    /\ SubSeq(line, i, i + 5) = <<"f", "r", "a", "m", "e", "=">>
    /\ LET j == SkipSpaces(line, i + 6) IN j <= Len(line) /\ IsDigitCh(line[j])

\* re.search(r'frame=\s*(\d+)', line): the number of the leftmost match, or
\* -1 when the line does not match.
FrameMatch(line) ==
    LET starts == {i \in 1..Len(line) : MatchAt(line, i)} IN
    IF starts = {} THEN -1
    ELSE LET first == CHOOSE i \in starts : \A k \in starts : i <= k
         IN ReadDigits(line, SkipSpaces(line, first + 6), 0)

NoTracker == [exists |-> FALSE, total_frames |-> 0, current_frame |-> 0,
              progress_bar |-> "None", bar_n |-> 0]

\* ProgressTracker.__init__
NewTracker(total_frames) ==
    [exists |-> TRUE, total_frames |-> total_frames, current_frame |-> 0,
     progress_bar |-> "None", bar_n |-> 0]

\* `if self.progress_bar`: the bar exists and tqdm's __bool__ holds, which for
\* a bar with a total is total > 0.
BarTruthy(t) == t.progress_bar # "None" /\ t.total_frames > 0

\* ProgressTracker.start
start(t) == [t EXCEPT !.progress_bar = "open", !.bar_n = 0]

\* update_from_ffmpeg_output without the clamp to total_frames.
update_from_ffmpeg_output_noclamp(t, output_line) ==
    IF ~BarTruthy(t) THEN t
    ELSE LET frame_num == FrameMatch(output_line) IN
         IF frame_num # -1 /\ frame_num > t.current_frame
         THEN [t EXCEPT !.bar_n = frame_num, !.current_frame = frame_num]
         ELSE t

\* update_from_ffmpeg_output taking every matched frame number, also a lower one.
update_from_ffmpeg_output_nocompare(t, output_line) ==
    IF ~BarTruthy(t) THEN t
    ELSE LET m == FrameMatch(output_line) IN
         IF m # -1
         THEN [t EXCEPT !.bar_n = Min(m, t.total_frames),
                        !.current_frame = Min(m, t.total_frames)]
         ELSE t

\* ProgressTracker.update_from_ffmpeg_output: the tracker after the call.
update_from_ffmpeg_output(t, output_line) ==
    IF ~BarTruthy(t) THEN t
    ELSE LET m == FrameMatch(output_line) IN
         IF m = -1 THEN t
         ELSE LET frame_num == Min(m, t.total_frames) IN
              IF frame_num > t.current_frame
              THEN [t EXCEPT !.bar_n = frame_num, !.current_frame = frame_num]
              ELSE t

\* ProgressTracker.complete
complete(t) ==
    IF BarTruthy(t)
    THEN [t EXCEPT !.bar_n = t.total_frames, !.current_frame = t.total_frames]
    ELSE t

\* set_progress without the clamp to total_frames.
set_progress_noclamp(t, current) ==
    IF BarTruthy(t)
    THEN [t EXCEPT !.bar_n = current, !.current_frame = current]
    ELSE t

\* ProgressTracker.set_progress
set_progress(t, current) ==
    IF BarTruthy(t)
    THEN [t EXCEPT !.bar_n = Min(current, t.total_frames),
                   !.current_frame = Min(current, t.total_frames)]
    ELSE t

\* ProgressTracker.increment
increment(t, amount) ==
    IF BarTruthy(t)
    THEN [t EXCEPT !.bar_n = Min(t.current_frame + amount, t.total_frames),
                   !.current_frame = Min(t.current_frame + amount, t.total_frames)]
    ELSE t

\* ProgressTracker.close
close(t) == IF BarTruthy(t) THEN [t EXCEPT !.progress_bar = "None"] ELSE t

\* ProgressTracker.__enter__ and __exit__
TrackerEnter(t) == start(t)
TrackerExit(t) == close(t)

(*************************************************************************)
(* file_utils.py: parse_size_string.  A size string is a sequence of      *)
(* characters.                                                           *)
(*************************************************************************)
\* str.replace(' ', ''), str.endswith(suf) and str[:-n], on sequences of
\* characters.
IsNotBlank(c) == c # " "
RemoveSpaces(str) == SelectSeq(str, IsNotBlank)
EndsWith(str, suf) ==
    Len(str) >= Len(suf) /\ SubSeq(str, Len(str) - Len(suf) + 1, Len(str)) = suf
DropLast(str, n) == SubSeq(str, 1, Len(str) - n)

RECURSIVE Pow10(_)
Pow10(k) == IF k = 0 THEN 1 ELSE 10 * Pow10(k - 1)

RECURSIVE DigitsValue(_)
\* The number a sequence of decimal digits denotes.
DigitsValue(digits) ==
    IF digits = <<>> THEN 0
    ELSE 10 * DigitsValue(SubSeq(digits, 1, Len(digits) - 1))
         + DigitVal(digits[Len(digits)])

\* float(str): an optional sign, then either digits with at most one point
\* and at least one digit, or one of the spellings of infinity and NaN in
\* any case.  The value is the rational num/den; den = 0 holds the values
\* that are no rational: num = 0 is nan, num = 1 is inf, num = -1 is -inf.
\* Anything else raises ValueError (the sample strings carry no exponent and
\* no underscore, which float() would also accept).
ParseFloat(str) ==
    LET signed == str # <<>> /\ str[1] \in {"+", "-"}
        neg == signed /\ str[1] = "-"
        body == IF signed THEN Tail(str) ELSE str
        dots == {i \in 1..Len(body) : body[i] = "."}
        ok == /\ \A i \in 1..Len(body) : IsDigitCh(body[i]) \/ body[i] = "."
              /\ Cardinality(dots) <= 1
              /\ \E i \in 1..Len(body) : IsDigitCh(body[i])
        fracLen == IF dots = {} THEN 0 ELSE Len(body) - (CHOOSE i \in dots : TRUE)
        v == DigitsValue(SelectSeq(body, IsDigitCh))
    IN IF Upper(body) = <<"N", "A", "N">> THEN Return(Some(0, 0))
       ELSE IF Upper(body) \in {<<"I", "N", "F">>,
                                <<"I", "N", "F", "I", "N", "I", "T", "Y">>}
       THEN Return(Some(IF neg THEN -1 ELSE 1, 0))
       ELSE IF ~ok THEN Raise("ValueError")
       ELSE Return(Some(IF neg THEN -v ELSE v, Pow10(fracLen)))

\* FileUtils.parse_size_string: the size in MB, or ValueError.  nan and the
\* infinities are unchanged by the multiplications and divisions.
parse_size_string(size_str) ==
    LET s == RemoveSpaces(Upper(size_str))
        conv(numstr, mul, div) ==
            LET f == ParseFloat(numstr)
            IN IF f.raised # "none" THEN Raise("ValueError")
               ELSE IF f.value.den = 0 THEN Return(f.value)
               ELSE Return(Some(f.value.num * mul, f.value.den * div))
    IN IF EndsWith(s, <<"G", "B">>) THEN conv(DropLast(s, 2), 1024, 1)
       ELSE IF EndsWith(s, <<"M", "B">>) THEN conv(DropLast(s, 2), 1, 1)
       ELSE IF EndsWith(s, <<"K", "B">>) THEN conv(DropLast(s, 2), 1, 1024)
       ELSE IF EndsWith(s, <<"B">>) THEN conv(DropLast(s, 1), 1, 1024 * 1024)
       ELSE conv(s, 1, 1)

(*************************************************************************)
(* State                                                                 *)
(*************************************************************************)
VARIABLES
    input_files,        \* process_batch: the ordered list of input paths
    quality,            \* quality preset name
    codec,              \* codec id
    target_size_mb,     \* Optional[float]
    compression_ratio,  \* Optional[float]
    preserve_metadata,  \* bool
    entry,               \* the entry point: process_batch or compress_video
    show_progress,      \* compress_video's show_progress argument
    args,               \* the argparse namespace of the command line
    pc,                 \* position of the running call
    raised,             \* the exception in flight, "none" when there is none
    idx,                \* process_batch: 1-based index of the current file
    results,            \* process_batch: {'success': [...], 'failed': [...]}
    info,               \* VideoInfo of the current file
    output_path,        \* output path of the current file
    settings,           \* resolved settings of the current file
    cmd,                \* encoder argument list of the current file
    calc_result,        \* outcome of a direct call of a pure function
    dir_exists,         \* whether the output directory exists
    probes,             \* prober children started for the current file
    launches,           \* encoder launches attempted for the current file
    child,              \* the encoder child process
    stderr_pipe,        \* lines the child wrote that the runner has not read
    tracker,            \* the ProgressTracker of the running encode
    output,             \* the runner's last line read from the child
    run_result,         \* what the runner returned for the current file
    error_log,          \* the runner's logger.error record for the current file
    orphans             \* encoder children the runner left without waiting

vars == <<input_files, quality, codec, target_size_mb, compression_ratio,
          preserve_metadata, entry, show_progress, args, pc, raised, idx, results,
          info, output_path, settings, cmd, calc_result, dir_exists, probes,
          launches, child, stderr_pipe, tracker, output, run_result, error_log,
          orphans>>

batchArgs == <<input_files, quality, codec, target_size_mb, compression_ratio,
               preserve_metadata, entry, show_progress, args>>
runnerVars == <<child, stderr_pipe, tracker, output>>
resultVars == <<run_result, error_log, orphans>>
countVars == <<dir_exists, probes, launches>>

NoInfo == [duration |-> 0, bitrate |-> 0, fps |-> 0, total_frames |-> 0]
NoSettings == [unset |-> TRUE]
NoResults == [success |-> <<>>, failed |-> <<>>]
\* A child process and its standard output: written counts its diagnostic
\* lines, stdout_left the blocks of a write to standard output it is inside
\* of, stdout_pipe the blocks sitting in the standard-output pipe.
NoChild == [state |-> "none", returncode |-> 0, written |-> 0,
            stdout_left |-> 0, stdout_pipe |-> 0]
NoSize == [given |-> FALSE, text |-> <<>>]
NoArgs == [size |-> NoSize, ratio |-> None, quality |-> "medium", codec |-> "libx264",
           quiet |-> FALSE, verbose |-> FALSE]
NoLog == [kind |-> "none", code |-> 0, text |-> <<>>]

\* The VideoInfo get_video_info builds from the prober's output.
MakeInfo(probe) ==
    [duration     |-> probe.duration,
     bitrate      |-> probe.bit_rate,
     fps          |-> probe.fps,
     total_frames |-> Trunc(probe.duration * probe.fps, 1)]

(*************************************************************************)
(* SpecSettings: the settings resolver and the command builder applied   *)
(* to inputs drawn from bounded sets.                                    *)
(*************************************************************************)
Qualities == {"ultra", "high", "medium", "low", "Medium", "invalid"}
Codecs == {"libx264", "libx265", "invalid"}
Durations == {1, 100, 120}
Bitrates == {50000, 4000000}
TargetSizes == {Some(n, d) : n \in -1..MaxTargetMB, d \in {1, 2}}
Ratios == {Some(n, 10) : n \in -1..MaxRatioTenths}
SamplePaths == {"videos/a.mp4"}

SInit ==
    /\ \E p \in SamplePaths : input_files = <<p>>
    /\ quality \in Qualities
    /\ codec \in Codecs
    /\ target_size_mb \in TargetSizes \cup {None}
    /\ compression_ratio \in Ratios \cup {None}
    /\ preserve_metadata \in BOOLEAN
    /\ entry = "single"
    /\ show_progress = TRUE
    /\ args = NoArgs
    /\ pc = "s_calc"
    /\ raised = "none"
    /\ idx = 1
    /\ results = NoResults
    /\ \E d \in Durations, b \in Bitrates :
           info = MakeInfo([duration |-> d, bit_rate |-> b, fps |-> 25])
    /\ output_path = "out/a_compressed.mp4"
    /\ settings = NoSettings
    /\ cmd = <<>>
    /\ calc_result = Return(0)
    /\ dir_exists = FALSE
    /\ probes = 0
    /\ launches = 0
    /\ child = NoChild
    /\ stderr_pipe = <<>>
    /\ tracker = NoTracker
    /\ output = <<>>
    /\ run_result = "unset"
    /\ error_log = NoLog
    /\ orphans = 0

\* A direct call of calculate_target_bitrate.
SCalc ==
    /\ pc = "s_calc"
    /\ calc_result' = calculate_target_bitrate(info, target_size_mb, compression_ratio)
    /\ pc' = "s_resolve"
    /\ UNCHANGED <<batchArgs, runnerVars, resultVars, countVars, raised, idx, results,
                   info, output_path, settings, cmd>>

\* A call of get_compression_settings.
SResolve ==
    /\ pc = "s_resolve"
    /\ LET r == get_compression_settings(quality, codec, info, target_size_mb,
                                         compression_ratio)
       IN IF r.raised # "none"
          THEN pc' = "s_raised" /\ raised' = r.raised /\ UNCHANGED settings
          ELSE pc' = "s_build" /\ settings' = r.value /\ UNCHANGED raised
    /\ UNCHANGED <<batchArgs, runnerVars, resultVars, countVars, idx, results, info,
                   output_path, cmd, calc_result>>

\* A call of build_ffmpeg_command with the resolved settings.
SBuild ==
    /\ pc = "s_build"
    /\ cmd' = build_ffmpeg_command(input_files[idx], output_path, settings,
                                   preserve_metadata)
    /\ pc' = "s_done"
    /\ UNCHANGED <<batchArgs, runnerVars, resultVars, countVars, raised, idx, results,
                   info, output_path, settings, calc_result>>

SNext == SCalc \/ SResolve \/ SBuild

SpecSettings == SInit /\ [][SNext]_vars

(*************************************************************************)
(* SpecCLI: cli.py, parse_arguments applied to command lines drawn from  *)
(* bounded sets.  args is the namespace argparse builds: size is the raw *)
(* string of -s (absent when the option is not given), ratio the float   *)
(* of -r.                                                                *)
(*************************************************************************)
QualityChoices == {"ultra", "high", "medium", "low"}
CodecChoices == {"libx264", "libx265"}

\* Strings given to -s.
SizeStrings ==
    {<<"5", "0", "M", "B">>, <<"1", ".", "5", "g", "b">>,
     <<"5", "0", "0", " ", "k", "b">>, <<"2", "0", "4", "8", "B">>, <<"1", "0">>,
     <<"0", "M", "B">>, <<"-", "5", "M", "B">>, <<>>, <<"a", "b", "c">>,
     <<"M", "B">>, <<"1", ".", "2", ".", "3", "M", "B">>,
     <<"1", "G", "B">>, <<"5", "0", "0", "K", "B">>, <<"n", "a", "n">>,
     <<"i", "n", "f", "M", "B">>}

\* Values given to -r, in hundredths.
CliRatios == {Some(n, 100) : n \in {-10, 0, 5, 9, 10, 50, 100, 101, 150}}

\* The truth value of args.size: None and '' are false.
StrTruthy(sz) == sz.given /\ sz.text # <<>>

\* _validate_arguments without the check for conflicting options.
validate_arguments_noconflict(a) ==
    IF StrTruthy(a.size) /\ parse_size_string(a.size.text).raised # "none"
    THEN "CLIError"
    ELSE IF a.ratio.some /\ ~(a.ratio.den <= a.ratio.num * 10 /\ a.ratio.num <= a.ratio.den)
    THEN "CLIError"
    ELSE IF a.quiet /\ a.verbose THEN "CLIError"
    ELSE "none"

\* CLI._validate_arguments: the exception it raises, "none" when it returns.
validate_arguments(a) ==
    IF StrTruthy(a.size) /\ parse_size_string(a.size.text).raised # "none"
    THEN "CLIError"
    ELSE IF a.ratio.some /\ ~(a.ratio.den <= a.ratio.num * 10 /\ a.ratio.num <= a.ratio.den)
    THEN "CLIError"
    ELSE IF StrTruthy(a.size) /\ Truthy(a.ratio) THEN "CLIError"
    ELSE IF a.quiet /\ a.verbose THEN "CLIError"
    ELSE "none"

CInit ==
    /\ args \in [size    : {NoSize} \cup {[given |-> TRUE, text |-> t] : t \in SizeStrings},
                 ratio   : CliRatios \cup {None},
                 quality : {"medium", "low", "invalid"},
                 codec   : {"libx264", "invalid"},
                 quiet   : BOOLEAN,
                 verbose : BOOLEAN]
    /\ pc = "cli_parse"
    /\ input_files = <<>>
    /\ quality = "medium"
    /\ codec = "libx264"
    /\ target_size_mb = None
    /\ compression_ratio = None
    /\ preserve_metadata = TRUE
    /\ entry = "cli"
    /\ show_progress = TRUE
    /\ raised = "none"
    /\ idx = 1
    /\ results = NoResults
    /\ info = NoInfo
    /\ output_path = ""
    /\ settings = NoSettings
    /\ cmd = <<>>
    /\ calc_result = Return(0)
    /\ dir_exists = FALSE
    /\ probes = 0
    /\ launches = 0
    /\ child = NoChild
    /\ stderr_pipe = <<>>
    /\ tracker = NoTracker
    /\ output = <<>>
    /\ run_result = "unset"
    /\ error_log = NoLog
    /\ orphans = 0

cliRest == <<input_files, quality, codec, target_size_mb, compression_ratio,
             preserve_metadata, entry, show_progress, args, idx, results, info,
             output_path, settings, cmd, dir_exists, probes, launches,
             child, stderr_pipe, tracker, output, run_result, error_log, orphans>>

\* self.parser.parse_args(args): argparse refuses a quality or codec outside
\* its choices with SystemExit(2), which parse_arguments turns into CLIError.
CParseArgs ==
    /\ pc = "cli_parse"
    /\ IF args.quality \notin QualityChoices \/ args.codec \notin CodecChoices
       THEN pc' = "cli_raised" /\ raised' = "CLIError"
       ELSE pc' = "cli_validate" /\ UNCHANGED raised
    /\ UNCHANGED <<cliRest, calc_result>>

\* self._validate_arguments(parsed_args), then return parsed_args.  The
\* outcome of its call of parse_size_string is kept in calc_result.
CValidate ==
    /\ pc = "cli_validate"
    /\ IF StrTruthy(args.size)
       THEN calc_result' = parse_size_string(args.size.text)
       ELSE UNCHANGED calc_result
    /\ LET e == validate_arguments(args)
       IN IF e # "none"
          THEN pc' = "cli_raised" /\ raised' = e
          ELSE pc' = "cli_accepted" /\ UNCHANGED raised
    /\ UNCHANGED cliRest

CNext == CParseArgs \/ CValidate

SpecCLI == CInit /\ [][CNext]_vars

(*************************************************************************)
(* Spec: VideoProcessor.process_batch with compress_video, the           *)
(* progress-tracked runner, its encoder child and the progress tracker.  *)
(*************************************************************************)
output_dir == "out"
output_format == "mp4"

(*************************************************************************)
(* SpecFiles: file_utils.py, is_supported_format and generate_output_path *)
(* applied to lists of two paths drawn from the sample paths.            *)
(*************************************************************************)
FInit ==
    /\ input_files \in {<<p, q>> : p \in FormatPaths, q \in FormatPaths}
    /\ pc = "f_check"
    /\ quality = "medium"
    /\ codec = "libx264"
    /\ target_size_mb = None
    /\ compression_ratio = None
    /\ preserve_metadata = TRUE
    /\ entry = "files"
    /\ show_progress = TRUE
    /\ args = NoArgs
    /\ raised = "none"
    /\ idx = 1
    /\ results = NoResults
    /\ info = NoInfo
    /\ output_path = ""
    /\ settings = NoSettings
    /\ cmd = <<>>
    /\ calc_result = Return(0)
    /\ dir_exists = FALSE
    /\ probes = 0
    /\ launches = 0
    /\ child = NoChild
    /\ stderr_pipe = <<>>
    /\ tracker = NoTracker
    /\ output = <<>>
    /\ run_result = "unset"
    /\ error_log = NoLog
    /\ orphans = 0

filesRest == <<batchArgs, runnerVars, resultVars, countVars, raised, results, info,
               settings, cmd>>

\* A call of FileUtils.is_supported_format(input_files[idx]).
FSupported ==
    /\ pc = "f_check"
    /\ calc_result' = Return(is_supported_format(input_files[idx]))
    /\ pc' = "f_gen"
    /\ UNCHANGED <<filesRest, idx, output_path>>

\* A call of FileUtils.generate_output_path for the same path.
FGenerate ==
    /\ pc = "f_gen"
    /\ output_path' = generate_output_path(input_files[idx], output_dir,
                                           "_compressed", output_format)
    /\ pc' = "f_next"
    /\ UNCHANGED <<filesRest, idx, calc_result>>

\* On to the next path of the list.
FAdvance ==
    /\ pc = "f_next"
    /\ idx < Len(input_files)
    /\ idx' = idx + 1
    /\ pc' = "f_check"
    /\ UNCHANGED <<filesRest, calc_result, output_path>>

FNext == FSupported \/ FGenerate \/ FAdvance

SpecFiles == FInit /\ [][FNext]_vars

\* What the media prober can report for a file: a 3-frame clip, a clip whose
\* frame rate is 0, and a clip of duration 0.
ProbeOutputs ==
    {[duration |-> 3, bit_rate |-> 4000000, fps |-> 1],
     [duration |-> 100, bit_rate |-> 4000000, fps |-> 0],
     [duration |-> 0, bit_rate |-> 4000000, fps |-> 25]}

\* get_video_info: a VideoInfo built from the prober's output, or
\* VideoProcessingError, raised before the prober is run (file missing,
\* format not supported) or after it (prober error, no video stream).
\* probed tells whether ffmpeg.probe started the prober child.
VideoInfoOutcomes ==
    {[raised |-> "none", value |-> MakeInfo(p), probed |-> TRUE] : p \in ProbeOutputs}
    \cup {[raised |-> "VideoProcessingError", value |-> NoInfo, probed |-> b] :
             b \in BOOLEAN}

\* The outcomes of get_video_info(input_path): a path of an unsupported
\* format is refused before the prober is run.
get_video_info(input_path) ==
    IF is_supported_format(input_path)
    THEN VideoInfoOutcomes
    ELSE {r \in VideoInfoOutcomes : r.raised # "none" /\ ~r.probed}

\* Diagnostic lines the encoder child may write.
LineFrame2 == <<"f", "r", "a", "m", "e", "=", " ", " ", "2", " ", "q", "=", "1">>
LineFrame7 == <<"f", "r", "a", "m", "e", "=", "7", "\n">>
LineFrame1 == <<"f", "r", "a", "m", "e", "=", "1">>
LineMalformed == <<"f", "r", "a", "m", "e", "=", "x", "9">>
LineNoMarker == <<"s", "i", "z", "e", "=", "1", "2">>
LineSecondMarker ==
    <<"x", "f", "r", "a", "m", "e", "=", " ", "f", "r", "a", "m", "e", "=", "4">>
SampleLines == {LineFrame2, LineFrame7, LineFrame1, LineMalformed, LineNoMarker,
                LineSecondMarker}

RECURSIVE SeqsUpTo(_, _)
\* The sequences over S of length at most n.
SeqsUpTo(S, n) ==
    IF n = 0 THEN {<<>>}
    ELSE LET shorter == SeqsUpTo(S, n - 1)
         IN shorter \cup {Append(q, x) : q \in {r \in shorter : Len(r) = n - 1}, x \in S}

\* The VideoInfo a caller of compress_video resolved the settings from.
SampleInfo == MakeInfo([duration |-> 3, bit_rate |-> 4000000, fps |-> 1])

\* The state at the entry of process_batch(input_files, output_dir, ...), or at
\* the entry of a direct call compress_video(input_path, output_path, settings,
\* preserve_metadata, show_progress) with settings resolved by the caller.
Init ==
    /\ codec = "libx264"
    /\ target_size_mb \in {None, Some(10, 1)}
    /\ compression_ratio = None
    /\ preserve_metadata = TRUE
    /\ \/ /\ entry = "batch"
          /\ input_files \in SeqsUpTo(BatchPaths, MaxFiles)
          /\ quality \in {"medium", "invalid"}
          /\ show_progress = TRUE
          /\ pc = "start"
          /\ output_path = ""
          /\ settings = NoSettings
       \/ /\ entry = "single"
          /\ \E p \in BatchPaths :
                /\ input_files = <<p>>
                /\ output_path = generate_output_path(p, output_dir, "_compressed",
                                                      output_format)
          /\ quality = "medium"
          /\ show_progress \in BOOLEAN
          /\ pc = "compress"
          /\ settings = get_compression_settings(quality, codec, SampleInfo,
                                                 target_size_mb, compression_ratio).value
    /\ args = NoArgs
    /\ raised = "none"
    /\ idx = 1
    /\ results = NoResults
    /\ info = NoInfo
    /\ cmd = <<>>
    /\ calc_result = Return(0)
    /\ dir_exists \in BOOLEAN
    /\ probes = 0
    /\ launches = 0
    /\ child = NoChild
    /\ stderr_pipe = <<>>
    /\ tracker = NoTracker
    /\ output = <<>>
    /\ run_result = "unset"
    /\ error_log = NoLog
    /\ orphans = 0

\* results['failed'].append(input_path) of the `except Exception` handler
\* left out.
HandleException_norecord(res, input_path) == res

\* process_batch's `except Exception` handler.
HandleException(res, input_path) == [res EXCEPT !.failed = Append(@, input_path)]

\* results['failed'].append(input_path) for a skipped or unsuccessful file.
RecordFailed(res, input_path) == [res EXCEPT !.failed = Append(@, input_path)]

\* results['success'].append((input_path, output_path))
RecordSuccess(res, input_path, out) ==
    [res EXCEPT !.success = Append(@, <<input_path, out>>)]

\* What belongs to the file in hand: the locals of one turn of process_batch's
\* loop and of the calls it makes.
fileVars == <<results, idx, raised, info, output_path, settings, cmd, probes,
              launches, child, stderr_pipe, tracker, output, run_result,
              error_log, orphans>>

\* The state process_batch is in when it goes on to the next file.  A child
\* the runner did not wait for is neither waited for nor killed here: it goes
\* on running.
ToNextFile(res) ==
    /\ results' = res
    /\ idx' = idx + 1
    /\ pc' = "loop"
    /\ raised' = "none"
    /\ info' = NoInfo
    /\ output_path' = ""
    /\ settings' = NoSettings
    /\ cmd' = <<>>
    /\ probes' = 0
    /\ launches' = 0
    /\ orphans' = IF child.state = "running" THEN orphans + 1 ELSE orphans
    /\ child' = NoChild
    /\ stderr_pipe' = <<>>
    /\ tracker' = NoTracker
    /\ output' = <<>>
    /\ run_result' = "unset"
    /\ error_log' = NoLog

\* An exception leaves the call in hand: inside process_batch's loop it
\* reaches the `except Exception` handler, in a direct call of compress_video
\* it reaches the caller.
RaiseFrom(e) ==
    /\ raised' = e
    /\ pc' = IF entry = "batch" THEN "except" ELSE "single_raised"

\* ensure_directory_exists with the OSError swallowed.
EnsureOutputDir_swallow ==
    /\ pc = "start"
    /\ \/ pc' = "loop" /\ dir_exists' = TRUE
       \/ ~dir_exists /\ pc' = "loop" /\ UNCHANGED dir_exists
    /\ UNCHANGED <<batchArgs, runnerVars, resultVars, probes, launches, raised, idx,
                   results, info, output_path, settings, cmd, calc_result>>

\* FileUtils.ensure_directory_exists(output_dir) at the head of process_batch:
\* the directory exists afterwards, or OSError leaves process_batch.
EnsureOutputDir ==
    /\ pc = "start"
    /\ \/ pc' = "loop" /\ dir_exists' = TRUE /\ UNCHANGED raised
       \/ ~dir_exists /\ pc' = "raised" /\ raised' = "OSError" /\ UNCHANGED dir_exists
    /\ UNCHANGED <<batchArgs, runnerVars, resultVars, probes, launches, idx, results,
                   info, output_path, settings, cmd, calc_result>>

\* The head of the loop body: the format check of the next file.
NextFile ==
    /\ pc = "loop"
    /\ idx <= Len(input_files)
    /\ IF ~is_supported_format(input_files[idx])
       THEN ToNextFile(RecordFailed(results, input_files[idx]))
       ELSE /\ pc' = "get_info"
            /\ UNCHANGED fileVars
    /\ UNCHANGED <<batchArgs, calc_result, dir_exists>>

\* The loop is exhausted: process_batch returns results.
BatchReturn ==
    /\ pc = "loop"
    /\ idx > Len(input_files)
    /\ pc' = "done"
    /\ UNCHANGED <<batchArgs, fileVars, calc_result, dir_exists>>

\* info = self.get_video_info(input_path)
GetVideoInfo ==
    /\ pc = "get_info"
    /\ \E r \in get_video_info(input_files[idx]) :
          /\ probes' = IF r.probed THEN probes + 1 ELSE probes
          /\ IF r.raised # "none"
             THEN RaiseFrom(r.raised) /\ UNCHANGED info
             ELSE info' = r.value /\ pc' = "resolve" /\ UNCHANGED raised
    /\ UNCHANGED <<batchArgs, runnerVars, resultVars, calc_result, dir_exists,
                   launches, idx, results, output_path, settings, cmd>>

\* generate_output_path, then get_compression_settings.
ResolveSettings ==
    /\ pc = "resolve"
    /\ output_path' = generate_output_path(input_files[idx], output_dir,
                                           "_compressed", output_format)
    /\ LET r == get_compression_settings(quality, codec, info, target_size_mb,
                                         compression_ratio)
       IN IF r.raised # "none"
          THEN RaiseFrom(r.raised) /\ UNCHANGED settings
          ELSE settings' = r.value /\ pc' = "compress" /\ UNCHANGED raised
    /\ UNCHANGED <<batchArgs, runnerVars, resultVars, countVars, calc_result, idx,
                   results, info, cmd>>

\* compress_video up to the runner: its own get_video_info, the directory of
\* the output path and the command.  Any exception is re-raised as
\* VideoProcessingError.
CompressVideo ==
    /\ pc = "compress"
    /\ \E r \in get_video_info(input_files[idx]),
          dir_ok \in (IF dir_exists THEN {TRUE} ELSE BOOLEAN) :
          /\ probes' = IF r.probed THEN probes + 1 ELSE probes
          /\ IF r.raised # "none"
             THEN RaiseFrom("VideoProcessingError") /\ UNCHANGED <<info, cmd, dir_exists>>
             ELSE IF ~dir_ok
             THEN RaiseFrom("VideoProcessingError") /\ UNCHANGED <<info, cmd, dir_exists>>
             ELSE /\ info' = r.value
                  /\ dir_exists' = TRUE
                  /\ cmd' = build_ffmpeg_command(input_files[idx], output_path,
                                                 settings, preserve_metadata)
                  /\ pc' = "popen"
                  /\ UNCHANGED raised
    /\ UNCHANGED <<batchArgs, runnerVars, resultVars, calc_result, launches, idx,
                   results, output_path, settings>>

\* _run_ffmpeg_with_progress: subprocess.Popen and the entry of the `with`
\* block.  When Popen raises, the runner's handler returns False.
SpawnEncoder ==
    /\ pc = "popen"
    /\ show_progress
    /\ launches' = launches + 1
    /\ \E spawned \in BOOLEAN :
          IF ~spawned
          THEN /\ run_result' = "False"
               /\ error_log' = [kind |-> "exception", code |-> 0, text |-> <<>>]
               /\ pc' = "ran"
               /\ UNCHANGED <<child, tracker>>
          ELSE /\ child' = [NoChild EXCEPT !.state = "running"]
               /\ tracker' = TrackerEnter(NewTracker(info.total_frames))
               /\ pc' = "read"
               /\ UNCHANGED <<run_result, error_log>>
    /\ UNCHANGED <<batchArgs, calc_result, dir_exists, probes, raised, idx, results,
                   info, output_path, settings, cmd, stderr_pipe, output, orphans>>

\* _run_ffmpeg_silent: subprocess.run starts the child and waits for it,
\* collecting what it writes.  When the launch raises, the runner's handler
\* returns False.
SpawnSilent ==
    /\ pc = "popen"
    /\ ~show_progress
    /\ launches' = launches + 1
    /\ \E spawned \in BOOLEAN :
          IF ~spawned
          THEN /\ run_result' = "False"
               /\ error_log' = [kind |-> "exception", code |-> 0, text |-> <<>>]
               /\ pc' = "ran"
               /\ UNCHANGED child
          ELSE /\ child' = [NoChild EXCEPT !.state = "running"]
               /\ pc' = "wait"
               /\ UNCHANGED <<run_result, error_log>>
    /\ UNCHANGED <<batchArgs, calc_result, dir_exists, probes, raised, idx, results,
                   info, output_path, settings, cmd, stderr_pipe, tracker, output,
                   orphans>>

\* The child writes a diagnostic line; it blocks while the pipe is full.
\* Under subprocess.run the pipe is drained into memory as the child writes.
\* A child inside a write to its standard output does nothing else.
ChildWrite ==
    /\ child.state = "running"
    /\ child.stdout_left = 0
    /\ child.written < MaxLines
    /\ Len(stderr_pipe) < PipeCap \/ pc = "wait"
    /\ \E line \in SampleLines : stderr_pipe' = Append(stderr_pipe, line)
    /\ child' = [child EXCEPT !.written = @ + 1]
    /\ UNCHANGED <<batchArgs, resultVars, countVars, pc, raised, idx, results, info,
                   output_path, settings, cmd, calc_result, tracker, output>>

\* The child calls write on its standard output, with at most one block more
\* than the pipe still takes.
ChildBeginStdout ==
    /\ child.state = "running"
    /\ child.stdout_left = 0
    /\ \E n \in 1..(PipeCap + 1 - child.stdout_pipe) :
          child' = [child EXCEPT !.stdout_left = n]
    /\ UNCHANGED <<batchArgs, resultVars, countVars, pc, raised, idx, results, info,
                   output_path, settings, cmd, calc_result, stderr_pipe, tracker,
                   output>>

\* One block of that write enters the standard-output pipe, which
\* Popen(stdout=PIPE) created and _run_ffmpeg_with_progress never reads; the
\* write blocks while the pipe is full.
ChildWriteStdout ==
    /\ child.state = "running"
    /\ child.stdout_left > 0
    /\ child.stdout_pipe < PipeCap
    /\ child' = [child EXCEPT !.stdout_left = @ - 1, !.stdout_pipe = @ + 1]
    /\ UNCHANGED <<batchArgs, resultVars, countVars, pc, raised, idx, results, info,
                   output_path, settings, cmd, calc_result, stderr_pipe, tracker,
                   output>>

\* The child exits with a status; its end of the pipe is closed.
ChildExit ==
    /\ child.state = "running"
    /\ child.stdout_left = 0
    /\ \E code \in {0, 1} : child' = [child EXCEPT !.state = "exited", !.returncode = code]
    /\ UNCHANGED <<batchArgs, resultVars, countVars, pc, raised, idx, results, info,
                   output_path, settings, cmd, calc_result, stderr_pipe, tracker,
                   output>>

\* A child the runner left behind exits.
OrphanExit ==
    /\ orphans > 0
    /\ orphans' = orphans - 1
    /\ UNCHANGED <<batchArgs, runnerVars, countVars, pc, raised, idx, results, info,
                   output_path, settings, cmd, calc_result, run_result, error_log>>

\* One turn of the read loop with a line: readline, then
\* tracker.update_from_ffmpeg_output(output).
ReadLine ==
    /\ pc = "read"
    /\ stderr_pipe # <<>>
    /\ output' = Head(stderr_pipe)
    /\ stderr_pipe' = Tail(stderr_pipe)
    /\ tracker' = update_from_ffmpeg_output(tracker, Head(stderr_pipe))
    /\ UNCHANGED <<batchArgs, resultVars, countVars, pc, raised, idx, results, info,
                   output_path, settings, cmd, calc_result, child>>

\* The read loop without its break: the turn at end of file goes round again.
ReadEOF_nobreak ==
    /\ pc = "read"
    /\ stderr_pipe = <<>>
    /\ child.state = "exited"
    /\ output' = <<>>
    /\ UNCHANGED <<batchArgs, resultVars, countVars, pc, raised, idx, results, info,
                   output_path, settings, cmd, calc_result, child, stderr_pipe,
                   tracker>>

\* The last turn of the read loop: readline returns '' at end of file and
\* poll() reports the exit; the `with` block is left through __exit__.
ReadEOF ==
    /\ pc = "read"
    /\ stderr_pipe = <<>>
    /\ child.state = "exited"
    /\ output' = <<>>
    /\ tracker' = TrackerExit(tracker)
    /\ pc' = "returned"
    /\ UNCHANGED <<batchArgs, resultVars, countVars, raised, idx, results, info,
                   output_path, settings, cmd, calc_result, child, stderr_pipe>>

\* readline raises (the stream cannot be decoded or read): __exit__ runs and
\* the runner's handler returns False.  The child is neither waited for nor
\* killed.
ReadError ==
    /\ pc = "read"
    /\ tracker' = TrackerExit(tracker)
    /\ run_result' = "False"
    /\ error_log' = [kind |-> "exception", code |-> 0, text |-> <<>>]
    /\ pc' = "ran"
    /\ UNCHANGED <<batchArgs, countVars, raised, idx, results, info, output_path,
                   settings, cmd, calc_result, child, stderr_pipe, output, orphans>>

\* return_code == 0 replaced by `return_code is not None`.
RunnerReturn_anyexit ==
    /\ pc = "returned"
    /\ run_result' = "True"
    /\ pc' = "ran"
    /\ UNCHANGED <<batchArgs, runnerVars, countVars, raised, idx, results, info,
                   output_path, settings, cmd, calc_result, error_log, orphans>>

\* The end of _run_ffmpeg_with_progress: return_code = process.poll(); 0
\* gives True, any other code is logged with process.stderr.read(), the rest
\* of the stream, and gives False.
RunnerReturn ==
    /\ pc = "returned"
    /\ IF child.returncode = 0
       THEN run_result' = "True" /\ UNCHANGED error_log
       ELSE /\ error_log' = [kind |-> "exit", code |-> child.returncode,
                             text |-> stderr_pipe]
            /\ run_result' = "False"
    /\ pc' = "ran"
    /\ UNCHANGED <<batchArgs, runnerVars, countVars, raised, idx, results, info,
                   output_path, settings, cmd, calc_result, orphans>>

\* The end of _run_ffmpeg_silent: subprocess.run returns when the child has
\* exited; returncode 0 gives True, any other code is logged with
\* result.stderr, all the child wrote, and gives False.
SilentReturn ==
    /\ pc = "wait"
    /\ child.state = "exited"
    /\ IF child.returncode = 0
       THEN run_result' = "True" /\ UNCHANGED error_log
       ELSE /\ error_log' = [kind |-> "exit", code |-> child.returncode,
                             text |-> stderr_pipe]
            /\ run_result' = "False"
    /\ pc' = "ran"
    /\ UNCHANGED <<batchArgs, runnerVars, countVars, raised, idx, results, info,
                   output_path, settings, cmd, calc_result, orphans>>

\* A failed encode sent back to the runner instead of being recorded.
RecordResult_retry ==
    /\ pc = "ran"
    /\ IF run_result = "True"
       THEN IF entry = "batch"
            THEN ToNextFile(RecordSuccess(results, input_files[idx], output_path))
            ELSE pc' = "single_done" /\ UNCHANGED fileVars
       ELSE /\ pc' = "popen"
            /\ run_result' = "unset"
            /\ child' = NoChild
            /\ stderr_pipe' = <<>>
            /\ UNCHANGED <<results, idx, raised, info, output_path, settings, cmd,
                           probes, launches, tracker, output, error_log, orphans>>
    /\ UNCHANGED <<batchArgs, calc_result, dir_exists>>

\* compress_video has returned the runner's result: process_batch appends the
\* file to results['success'] when it is true and to results['failed'] when
\* it is not; a direct caller of compress_video receives it.
RecordResult ==
    /\ pc = "ran"
    /\ IF entry = "batch"
       THEN IF run_result = "True"
            THEN ToNextFile(RecordSuccess(results, input_files[idx], output_path))
            ELSE ToNextFile(RecordFailed(results, input_files[idx]))
       ELSE pc' = "single_done" /\ UNCHANGED fileVars
    /\ UNCHANGED <<batchArgs, calc_result, dir_exists>>

\* The `except Exception` handler ending the batch instead of going on.
ExceptHandler_abort ==
    /\ pc = "except"
    /\ pc' = "done"
    /\ results' = HandleException(results, input_files[idx])
    /\ UNCHANGED <<batchArgs, runnerVars, countVars, calc_result, raised, idx, info,
                   output_path, settings, cmd, run_result, error_log, orphans>>

\* process_batch's `except Exception` handler: the file is recorded as failed
\* and the loop goes on.
ExceptHandler ==
    /\ pc = "except"
    /\ ToNextFile(HandleException(results, input_files[idx]))
    /\ UNCHANGED <<batchArgs, calc_result, dir_exists>>

Next ==
    \/ EnsureOutputDir
    \/ NextFile
    \/ BatchReturn
    \/ GetVideoInfo
    \/ ResolveSettings
    \/ CompressVideo
    \/ SpawnEncoder
    \/ SpawnSilent
    \/ ChildWrite
    \/ ChildExit
    \/ OrphanExit
    \/ ReadLine
    \/ ReadEOF
    \/ ReadError
    \/ RunnerReturn
    \/ SilentReturn
    \/ RecordResult
    \/ ExceptHandler

Spec == Init /\ [][Next]_vars

(*************************************************************************)
(* Properties of the batch orchestrator, the runner and the tracker,     *)
(* checked under Spec.                                                   *)
(*************************************************************************)
\* How often path p occurs in a list of paths.
Count(paths, p) == Cardinality({i \in DOMAIN paths : paths[i] = p})
SuccessInputs == [i \in DOMAIN results.success |-> results.success[i][1]]

\* C1: process_batch accounts for every input exactly once: while it runs the
\* two lists together hold the files handled so far, when it returns
\* len(success) + len(failed) = N and every path occurs in the two lists
\* together as often as in the input; no per-file failure leaves process_batch
\* as an exception (only the creation of the output directory, before the
\* first file, can).
C1_AllFilesAccounted ==
    /\ pc \in {"loop", "done"} =>
          Len(results.success) + Len(results.failed) = idx - 1
    /\ pc = "done" =>
          /\ Len(results.success) + Len(results.failed) = Len(input_files)
          /\ \A p \in BatchPaths :
                Count(SuccessInputs, p) + Count(results.failed, p)
                    = Count(input_files, p)
    /\ pc = "raised" => idx = 1 /\ results = NoResults

C1_Witness ==
    /\ pc = "done"
    /\ Len(input_files) = 2
    /\ input_files[1] = input_files[2]
    /\ Len(results.success) = 1
    /\ Len(results.failed) = 1

\* C2: the progress counter of a started tracker starts at 0, never decreases
\* from one diagnostic line to the next and never exceeds total_frames,
\* whatever lines the runner feeds to update_from_ffmpeg_output.
C2_ProgressMonotoneBounded ==
    [][/\ (pc = "popen" /\ pc' = "read") => tracker'.current_frame = 0
       /\ (pc = "read" /\ pc' \in {"read", "returned"}) =>
              /\ tracker'.current_frame >= tracker.current_frame
              /\ tracker'.current_frame <= tracker'.total_frames
              /\ tracker'.total_frames = tracker.total_frames]_vars

C2_Witness ==
    /\ pc = "read"
    /\ tracker.total_frames = 3
    /\ FrameMatch(output) = 7
    /\ tracker.current_frame = 3
    /\ stderr_pipe # <<>> /\ FrameMatch(Head(stderr_pipe)) = 1

\* C3: when the child has completed and the progress-tracked run is about to
\* return, the tracker's progress has been forced to 100%:
\* current_frame = total_frames.
C3_CompletedAtFullProgress ==
    pc = "returned" => tracker.current_frame = tracker.total_frames

(*************************************************************************)
(* Properties of the settings resolver and the command builder,          *)
(* checked under SpecSettings.                                           *)
(*************************************************************************)
Resolved == pc \in {"s_build", "s_done"}
Calculated == pc \in {"s_resolve", "s_build", "s_done", "s_raised"}

\* C4 (as stated): the resolved settings contain exactly one of the 'crf' and
\* the 'bitrate' entries: 'crf' is present iff 'bitrate' is absent.
C4_ExactlyOneKey ==
    Resolved => (("crf" \in DOMAIN settings) <=> ("bitrate" \notin DOMAIN settings))

\* C4 (amended): the resolved settings always contain the 'crf' entry, and
\* contain the 'bitrate' entry exactly when a non-zero target size or a
\* non-zero ratio is supplied; in bitrate mode both entries are present.
C4_CrfAlwaysBitrateIffRequested ==
    Resolved =>
        /\ "crf" \in DOMAIN settings
        /\ ("bitrate" \in DOMAIN settings)
               <=> (Truthy(target_size_mb) \/ Truthy(compression_ratio))

C4_Witness ==
    /\ Resolved
    /\ "bitrate" \in DOMAIN settings
    /\ "crf" \in DOMAIN settings
    /\ ~Truthy(target_size_mb)

\* C5: the built command is exactly: encoder, -i, input, -c:v, codec, -preset,
\* preset, -y, then either (-crf n) or (-b:v rate -maxrate rate), then the
\* codec-specific flags, then -c:a aac -b:a 128k, then -map_metadata 0 iff
\* preservation is requested, then the output path; -y is always present and
\* -crf and -b:v never occur together.
C5_CommandShape ==
    pc = "s_done" =>
        LET mode == IF "bitrate" \in DOMAIN settings
                    THEN <<"-b:v", settings.bitrate, "-maxrate", settings.bitrate>>
                    ELSE <<"-crf", IntToStr(settings.crf)>>
            flags == CASE settings.codec = "libx264" -> <<"-movflags", "+faststart">>
                       [] settings.codec = "libx265" -> <<"-x265-params", "log-level=error">>
            meta == IF preserve_metadata THEN <<"-map_metadata", "0">> ELSE <<>>
            has(a) == \E i \in DOMAIN cmd : cmd[i] = a
        IN /\ cmd = <<ffmpeg_path, "-i", input_files[idx], "-c:v", settings.codec,
                      "-preset", settings.preset, "-y">>
                    \o mode \o flags \o <<"-c:a", "aac", "-b:a", "128k">>
                    \o meta \o <<output_path>>
           /\ cmd[Len(cmd)] = output_path
           /\ has("-y")
           /\ ~(has("-crf") /\ has("-b:v"))
           /\ has("-crf") \/ (has("-b:v") /\ has("-maxrate"))
           /\ has("-map_metadata") <=> preserve_metadata

C5_Witness ==
    /\ pc = "s_done"
    /\ ~preserve_metadata
    /\ "bitrate" \in DOMAIN settings
    /\ settings.codec = "libx265"

\* C6: for duration > 0 and bitrate > 0 and every target size and ratio
\* (absent, zero or negative included) calculate_target_bitrate returns at
\* least 100000 bits/sec.
C6_NeverBelowFloor ==
    Calculated => calc_result.raised = "none" /\ calc_result.value >= 100000

C6_Witness ==
    /\ Calculated
    /\ target_size_mb.some /\ target_size_mb.num < 0
    /\ calc_result.value = 100000

\* C7 (as stated): for any two target sizes s1 <= s2 and a fixed VideoInfo,
\* calculate_target_bitrate(info, s1) <= calculate_target_bitrate(info, s2).
C7_MonotonicInTargetSize ==
    (Calculated /\ target_size_mb.some) =>
        \A s1 \in TargetSizes :
            RatLeq(s1, target_size_mb) =>
                calculate_target_bitrate(info, s1, compression_ratio).value
                    <= calc_result.value

\* C7 (amended): the same for any two target sizes s1 <= s2 with s1 non-zero;
\* a target size of zero is treated as absent and yields the ratio-scaled or
\* the original bitrate, which may exceed the bitrate of a larger size.
C7_MonotonicFromNonZero ==
    (Calculated /\ target_size_mb.some) =>
        \A s1 \in TargetSizes :
            (s1.num # 0 /\ RatLeq(s1, target_size_mb)) =>
                calculate_target_bitrate(info, s1, compression_ratio).value
                    <= calc_result.value

C7_Witness ==
    /\ Calculated
    /\ target_size_mb.some
    /\ \E s1 \in TargetSizes :
          /\ s1.num > 0
          /\ RatLeq(s1, target_size_mb)
          /\ 100000 < calculate_target_bitrate(info, s1, compression_ratio).value
          /\ calculate_target_bitrate(info, s1, compression_ratio).value
                 < calc_result.value

\* C8 (as stated): when a target size is supplied the returned bitrate is
\* max(trunc((target_MB * 8 * 1024^2 * 0.9) / duration), 100000).
C8_TargetSizeFormula ==
    (Calculated /\ target_size_mb.some) =>
        calc_result.value =
            Max(Trunc(target_size_mb.num * 8 * 1024 * 1024 * 9,
                      target_size_mb.den * 10 * info.duration), 100000)

\* C8 (amended): when a non-zero target size is supplied the returned bitrate
\* is max(trunc((target_MB * 8 * 1024^2 * 0.9) / duration), 100000).
C8_NonZeroTargetSizeFormula ==
    (Calculated /\ target_size_mb.some /\ target_size_mb.num # 0) =>
        calc_result.value =
            Max(Trunc(target_size_mb.num * 8 * 1024 * 1024 * 9,
                      target_size_mb.den * 10 * info.duration), 100000)

C8_Witness ==
    /\ Calculated
    /\ target_size_mb = Some(1, 2)
    /\ info.duration = 1
    /\ calc_result.value = 3774873

\* C9 (as stated): a 10 MB target on a 100-second clip resolves to 754974
\* bits/sec, above the floor, and the settings carry the string "737k".
C9_Scenario737k ==
    (Resolved /\ target_size_mb = Some(10, 1) /\ info.duration = 100) =>
        /\ settings.target_bitrate_bps = 754974
        /\ settings.target_bitrate_bps > 100000
        /\ settings.bitrate = "737k"

\* C9 (amended): a 10 MB target on a 100-second clip resolves to 754974
\* bits/sec, above the floor, and the settings carry the string "754k".
C9_Scenario754k ==
    (Resolved /\ target_size_mb = Some(10, 1) /\ info.duration = 100) =>
        /\ settings.target_bitrate_bps = 754974
        /\ settings.target_bitrate_bps > 100000
        /\ settings.bitrate = "754k"

C9_Witness ==
    /\ pc = "s_done"
    /\ target_size_mb = Some(10, 1)
    /\ info.duration = 100
    /\ "bitrate" \in DOMAIN settings

\* C10 (as stated): when a ratio is supplied and no target size, the resolved
\* bitrate is max(trunc(original_bitrate * ratio), 100000).
C10_RatioFormula ==
    (Resolved /\ compression_ratio.some /\ ~target_size_mb.some) =>
        /\ "target_bitrate_bps" \in DOMAIN settings
        /\ settings.target_bitrate_bps =
               Max(Trunc(info.bitrate * compression_ratio.num,
                         compression_ratio.den), 100000)

\* C10 (amended): when a non-zero ratio is supplied and no target size, the
\* resolved bitrate is max(trunc(original_bitrate * ratio), 100000).
C10_NonZeroRatioFormula ==
    (Resolved /\ compression_ratio.some /\ compression_ratio.num # 0
              /\ ~target_size_mb.some) =>
        /\ "target_bitrate_bps" \in DOMAIN settings
        /\ settings.target_bitrate_bps =
               Max(Trunc(info.bitrate * compression_ratio.num,
                         compression_ratio.den), 100000)

C10_Witness ==
    /\ Resolved
    /\ compression_ratio = Some(5, 10)
    /\ ~target_size_mb.some
    /\ info.bitrate = 4000000
    /\ settings.target_bitrate_bps = 2000000

\* C11: when neither a target size nor a ratio is supplied, for each of the
\* four presets and both codecs the resolved settings carry exactly the
\* preset's CRF value and speed preset (ultra 15/slow, high 18/medium, medium
\* 23/medium, low 28/fast) and no 'bitrate' key, and the built command
\* carries -crf with that value and neither -b:v nor -maxrate; for medium,
\* libx264, a 120 s clip at 4,000,000 bps that is CRF 23 and preset 'medium'.
C11_PresetConstantQuality ==
    (~target_size_mb.some /\ ~compression_ratio.some) =>
        LET crf == CASE quality = "ultra" -> 15 [] quality = "high" -> 18
                     [] quality = "medium" -> 23 [] quality = "low" -> 28
            speed == CASE quality = "ultra" -> "slow" [] quality = "high" -> "medium"
                       [] quality = "medium" -> "medium" [] quality = "low" -> "fast"
        IN /\ Resolved =>
                /\ settings.crf = crf
                /\ settings.preset = speed
                /\ "bitrate" \notin DOMAIN settings
           /\ pc = "s_done" =>
                /\ \E i \in 1..(Len(cmd) - 1) :
                      cmd[i] = "-crf" /\ cmd[i + 1] = IntToStr(crf)
                /\ \A i \in 1..Len(cmd) : cmd[i] \notin {"-b:v", "-maxrate"}

C11_Witness ==
    /\ pc = "s_done"
    /\ quality = "medium" /\ codec = "libx264"
    /\ info.duration = 120 /\ info.bitrate = 4000000
    /\ ~target_size_mb.some /\ ~compression_ratio.some
    /\ settings.crf = 23 /\ settings.preset = "medium"
    /\ \E i \in 1..(Len(cmd) - 1) : cmd[i] = "-crf" /\ cmd[i + 1] = "23"

\* C12: validate_quality is true exactly for ultra, high, medium and low and
\* validate_codec exactly for libx264 and libx265; get_compression_settings
\* raises ValueError and produces no settings for every other quality name
\* and every other codec id, whatever the other arguments are.
C12_InvalidNamesRejected ==
    /\ \A q \in Qualities :
          validate_quality(q) <=> q \in {"ultra", "high", "medium", "low"}
    /\ \A c \in Codecs : validate_codec(c) <=> c \in {"libx264", "libx265"}
    /\ (/\ Calculated /\ pc # "s_resolve"
        /\ \/ quality \notin {"ultra", "high", "medium", "low"}
           \/ codec \notin {"libx264", "libx265"}) =>
          /\ pc = "s_raised"
          /\ raised = "ValueError"
          /\ settings = NoSettings
          /\ cmd = <<>>

C12_Witness ==
    /\ pc = "s_raised"
    /\ raised = "ValueError"
    /\ quality = "Medium"
    /\ codec = "libx265"
    /\ Truthy(target_size_mb)
    /\ settings = NoSettings

(*************************************************************************)
(* Properties of the children process_batch and compress_video start,    *)
(* checked under Spec.                                                   *)
(*************************************************************************)
\* C13: a configuration error is rejected before any subprocess is spawned:
\* also in a direct call of process_batch with an unrecognized quality or
\* codec, when the invalid-parameter error is raised no prober child and no
\* encoder child has been started.
C13_NoChildBeforeConfigError ==
    raised = "ValueError" => probes = 0 /\ launches = 0

(*************************************************************************)
(* Properties of argument parsing, checked under SpecCLI.                *)
(*************************************************************************)
\* C14: parse_arguments raises CLIError whenever both a target size (a
\* non-empty -s string) and a ratio are given and whenever the ratio lies
\* outside [0.1, 1.0]; in every accepted run a given ratio lies in
\* [0.1, 1.0] and at most one of target size and ratio is active.
C14_SizeRatioExclusive ==
    LET sizeGiven == args.size.given /\ args.size.text # <<>>
        ratioGiven == args.ratio.some
        inRange == args.ratio.den <= 10 * args.ratio.num
                   /\ args.ratio.num <= args.ratio.den
    IN /\ (pc \in {"cli_accepted", "cli_raised"} /\ sizeGiven /\ ratioGiven) =>
              pc = "cli_raised" /\ raised = "CLIError"
       /\ (pc \in {"cli_accepted", "cli_raised"} /\ ratioGiven /\ ~inRange) =>
              pc = "cli_raised" /\ raised = "CLIError"
       /\ pc = "cli_accepted" =>
              /\ ~(sizeGiven /\ ratioGiven /\ args.ratio.num # 0)
              /\ ratioGiven => inRange

C14_Witness ==
    /\ pc = "cli_raised"
    /\ raised = "CLIError"
    /\ args.quality = "medium" /\ args.codec = "libx264"
    /\ ~args.quiet
    /\ args.size = [given |-> TRUE, text |-> <<"5", "0", "M", "B">>]
    /\ args.ratio = Some(50, 100)

\* C15: in process_batch an input whose extension is not supported is
\* appended to results['failed'] and skipped in one step: no prober child and
\* no encoder child is started for it, and the loop goes on with the next
\* file; no unsupported file ever reaches get_video_info or the runner.
C15_UnsupportedSkipped ==
    [][LET unsupported == idx <= Len(input_files) /\ input_files[idx] = "notes.txt"
       IN (entry = "batch" /\ unsupported) =>
             /\ pc \in {"start", "raised", "loop"}
             /\ (pc = "loop" /\ <<pc, idx, results>>' # <<pc, idx, results>>) =>
                   /\ results'.failed = Append(results.failed, input_files[idx])
                   /\ results'.success = results.success
                   /\ probes = 0 /\ launches = 0 /\ child.state = "none"
                   /\ probes' = 0 /\ launches' = 0 /\ child'.state = "none"
                   /\ pc' = "loop"
                   /\ idx' = idx + 1]_vars

C15_Witness ==
    /\ entry = "batch"
    /\ input_files = <<"notes.txt", "videos/a.mp4">>
    /\ idx = 2
    /\ pc = "get_info"
    /\ results = [success |-> <<>>, failed |-> <<"notes.txt">>]

\* The encoder children that exist: the one the runner holds while it runs,
\* and those a runner left behind running.
LiveEncoders == (IF child.state = "running" THEN 1 ELSE 0) + orphans

\* C16: process_batch handles its files strictly one at a time, in order: the
\* outcomes of the files before the current one are all recorded before it is
\* started, at most one encoder child exists at any moment, and the result is
\* returned only after every file has been attempted.
C16_OneFileAtATime ==
    entry = "batch" =>
        /\ Len(results.success) + Len(results.failed) = idx - 1
        /\ pc = "done" => idx = Len(input_files) + 1
        /\ LiveEncoders <= 1

\* C17: in process_batch the output directory is created (if absent) before
\* any file is processed: while it is being created no file has been handled
\* and no prober or encoder child has run, every later state has the
\* directory, and when it cannot be created OSError leaves process_batch with
\* no file processed and no child started.
C17_DirectoryFirst ==
    entry = "batch" =>
        /\ pc \in {"start", "raised"} =>
              /\ idx = 1 /\ results = NoResults
              /\ probes = 0 /\ launches = 0 /\ LiveEncoders = 0
        /\ pc = "raised" => raised = "OSError" /\ ~dir_exists
        /\ pc \notin {"start", "raised"} => dir_exists
        /\ (probes > 0 \/ launches > 0 \/ idx > 1) => dir_exists

C17_Witness ==
    /\ entry = "batch"
    /\ pc = "popen"
    /\ idx = 1
    /\ probes = 2
    /\ dir_exists

\* C18: there is no retry: for every file occurrence of a batch, and for the
\* single file of a direct compress_video call, the encoder is launched at
\* most once, also when it exited with a non-zero status or failed to start;
\* before the runner is entered it has not been launched at all.
C18_NoRetry ==
    /\ launches <= 1
    /\ pc \in {"start", "loop", "get_info", "resolve", "compress", "popen"} =>
          launches = 0
    /\ pc \in {"read", "wait", "returned", "ran"} => launches = 1

C18_Witness ==
    /\ pc = "ran"
    /\ child.state = "exited"
    /\ child.returncode = 1
    /\ run_result = "False"
    /\ launches = 1

\* C19: in both runner modes the runner's result is true exactly when the
\* child was started, no error occurred reading it and it exited with code 0;
\* a non-zero exit, a failed launch or a read error gives false; and
\* process_batch appends the file to results['success'] exactly when the
\* result is true, otherwise to results['failed'].
C19_TrueIffExitZero ==
    [][pc = "ran" =>
          /\ run_result \in {"True", "False"}
          /\ run_result = "True" <=>
                /\ child.state = "exited"
                /\ child.returncode = 0
                /\ error_log.kind # "exception"
          /\ (entry = "batch" /\ pc' # "ran") =>
                IF run_result = "True"
                THEN /\ results'.success =
                            Append(results.success, <<input_files[idx], output_path>>)
                     /\ results'.failed = results.failed
                ELSE /\ results'.failed = Append(results.failed, input_files[idx])
                     /\ results'.success = results.success]_vars

C19_Witness ==
    /\ pc = "ran"
    /\ ~show_progress
    /\ child.state = "exited"
    /\ child.returncode = 0
    /\ child.written = 2
    /\ run_result = "True"

\* C20: when the child exits with a non-zero code, the failure the runner
\* logs carries the diagnostic text the child wrote to its error stream, in
\* progress-tracked mode as in silent mode: it is not an empty text when the
\* child wrote something.
C20_DiagnosticAttached ==
    (error_log.kind = "exit" /\ child.written > 0) => error_log.text # <<>>

\* C21: when get_video_info cannot analyze a file, in process_batch's own
\* probe or in the one compress_video makes, VideoProcessingError reaches
\* process_batch's handler with no encoder launched for the file; the handler
\* appends the file to results['failed'] and the loop goes on with the next
\* file.
C21_ProbeFailureRecorded ==
    [][(entry = "batch" /\ pc = "except" /\ raised = "VideoProcessingError") =>
          /\ launches = 0
          /\ child.state = "none"
          /\ pc' # pc =>
                /\ results'.failed = Append(results.failed, input_files[idx])
                /\ results'.success = results.success
                /\ launches' = 0
                /\ child'.state = "none"
                /\ pc' = "loop"
                /\ idx' = idx + 1]_vars

C21_Witness ==
    /\ entry = "batch"
    /\ Len(input_files) = 2
    /\ idx = 2
    /\ pc = "except"
    /\ raised = "VideoProcessingError"
    /\ probes = 2
    /\ launches = 0
    /\ results = [success |-> <<>>, failed |-> <<"videos/a.mp4">>]

(*************************************************************************)
(* Further properties of the settings resolver, checked under            *)
(* SpecSettings.                                                         *)
(*************************************************************************)
\* C25: in bitrate mode settings['bitrate'] is the decimal of
\* floor(target_bitrate_bps / 1000) followed by 'k': the kilobit count is the
\* largest one not above the bitrate (never rounded up) and at least 100, and
\* the built command passes that same string to -b:v and to -maxrate.
C25_BitrateTruncated ==
    (Resolved /\ "bitrate" \in DOMAIN settings) =>
        LET bps == settings.target_bitrate_bps
            kbit == CHOOSE k \in 0..(bps \div 1000 + 1) :
                        k * 1000 <= bps /\ bps < (k + 1) * 1000
        IN /\ settings.bitrate = IntToStr(kbit) \o "k"
           /\ kbit >= 100
           /\ pc = "s_done" =>
                \E i \in 1..(Len(cmd) - 3) :
                    /\ cmd[i] = "-b:v" /\ cmd[i + 1] = settings.bitrate
                    /\ cmd[i + 2] = "-maxrate" /\ cmd[i + 3] = settings.bitrate

C25_Witness ==
    /\ pc = "s_done"
    /\ target_size_mb = Some(10, 1)
    /\ info.duration = 100
    /\ settings.target_bitrate_bps = 754974
    /\ settings.bitrate = "754k"
    /\ \E i \in 1..(Len(cmd) - 3) :
          cmd[i] = "-b:v" /\ cmd[i + 1] = "754k" /\ cmd[i + 3] = "754k"

\* C26: target size takes precedence over the ratio: whenever a non-zero
\* target size is supplied, the resolved bitrate is the same for every value
\* of the compression ratio, absent or explicit, and for every quality
\* preset; it depends on the target size and the duration only.
C26_TargetSizePrecedence ==
    (Resolved /\ target_size_mb.some /\ target_size_mb.num # 0) =>
        \A q \in {"ultra", "high", "medium", "low"}, r \in Ratios \cup {None},
           b \in Bitrates :
            LET other == get_compression_settings(
                             q, codec, [info EXCEPT !.bitrate = b],
                             target_size_mb, r).value
            IN /\ other.target_bitrate_bps = settings.target_bitrate_bps
               /\ other.bitrate = settings.bitrate

C26_Witness ==
    /\ Resolved
    /\ quality = "low"
    /\ target_size_mb = Some(10, 1)
    /\ compression_ratio = Some(5, 10)
    /\ info.duration = 100
    /\ info.bitrate = 4000000
    /\ settings.target_bitrate_bps = 754974

\* C27: a target size of zero is treated as absent: "0MB" is an accepted size
\* string that parses to 0, and get_compression_settings with target size 0
\* and no ratio returns CRF-mode settings with no 'bitrate' key, equal to the
\* settings returned when no target size is given.
C27_ZeroTargetAbsent ==
    /\ parse_size_string(<<"0", "M", "B">>) = Return(Some(0, 1))
    /\ validate_arguments([NoArgs EXCEPT
           !.size = [given |-> TRUE, text |-> <<"0", "M", "B">>]]) = "none"
    /\ (Resolved /\ target_size_mb.some /\ target_size_mb.num = 0
          /\ ~compression_ratio.some) =>
          /\ "bitrate" \notin DOMAIN settings
          /\ "target_bitrate_bps" \notin DOMAIN settings
          /\ "crf" \in DOMAIN settings
          /\ settings = get_compression_settings(quality, codec, info, None, None).value

C27_Witness ==
    /\ pc = "s_done"
    /\ target_size_mb = Some(0, 1)
    /\ ~compression_ratio.some
    /\ quality = "medium"
    /\ settings.crf = 23
    /\ "bitrate" \notin DOMAIN settings

(*************************************************************************)
(* Properties of file_utils.py, checked under SpecFiles and SpecCLI.     *)
(*************************************************************************)
\* C23: is_supported_format is true exactly for the paths whose final
\* extension, compared case-insensitively, is one of .mp4 .avi .mov .mkv
\* .wmv .flv .webm .m4v; it is false for every other sample path: another
\* extension (.txt, .mp3, .mp4x), no extension, a dot file named '.mp4', and
\* a supported extension on a directory only.
C23_SupportedFormats ==
    pc \in {"f_gen", "f_next"} =>
        (calc_result.value <=>
            input_files[idx] \in
                {"video.mp4", "VIDEO.MP4", "clip.Avi", "m.mov", "a.b.mkv", "z.wmv",
                 "y.flv", "a.webm", "x.m4v", "videos/a.mp4", "clips/a.MKV",
                 "my:clip*.mp4"})

C23_Witness ==
    /\ pc = "f_next"
    /\ idx = 2
    /\ input_files = <<"dir.mp4/file", "VIDEO.MP4">>
    /\ calc_result.value = TRUE

(*************************************************************************)
(* Output paths of a batch, checked under Spec.                          *)
(*************************************************************************)
\* C29: within one batch distinct input paths get distinct output paths, so
\* no output recorded in the success list is overwritten by the encode of a
\* later file: two entries of results['success'] with different inputs have
\* different outputs, and the output path of the file in hand is not the
\* output of an earlier, different input.
C29_DistinctOutputs ==
    entry = "batch" =>
        /\ \A i, j \in DOMAIN results.success :
              results.success[i][1] # results.success[j][1] =>
                  results.success[i][2] # results.success[j][2]
        /\ \A i \in DOMAIN results.success :
              (pc \in {"compress", "popen", "read", "returned", "ran"}
                 /\ results.success[i][1] # input_files[idx]) =>
                  results.success[i][2] # output_path

(*************************************************************************)
(* Size strings, checked under SpecCLI.                                  *)
(*************************************************************************)
\* The decimal literals among the sample size strings.
C22_Numeric ==
    {<<"5", "0", "M", "B">>, <<"1", ".", "5", "g", "b">>,
     <<"5", "0", "0", " ", "k", "b">>, <<"2", "0", "4", "8", "B">>, <<"1", "0">>,
     <<"0", "M", "B">>, <<"-", "5", "M", "B">>, <<"1", "G", "B">>,
     <<"5", "0", "0", "K", "B">>}

\* C22: once _validate_arguments has parsed a size string, '50MB' gave 50,
\* '1GB' gave 1024 and '500KB' gave 500/1024 MB, in any case and with
\* spaces ignored, and every string whose numeric part is empty or is not a
\* number raised ValueError instead of giving a value.
C22_ParseSizeString ==
    (pc \in {"cli_accepted", "cli_raised"}
       /\ StrTruthy(args.size) /\ args.quality \in QualityChoices
       /\ args.codec \in CodecChoices) =>
        /\ args.size.text = <<"5", "0", "M", "B">> => calc_result = Return(Some(50, 1))
        /\ args.size.text = <<"1", "G", "B">> => calc_result = Return(Some(1024, 1))
        /\ args.size.text \in {<<"5", "0", "0", "K", "B">>, <<"5", "0", "0", " ", "k", "b">>}
              => calc_result = Return(Some(500, 1024))
        /\ args.size.text = <<"1", ".", "5", "g", "b">>
              => calc_result = Return(Some(15 * 1024, 10))
        /\ args.size.text \notin C22_Numeric => calc_result = Raise("ValueError")

(*************************************************************************)
(* A ProgressTracker driven on its own: any sequence of its operations.  *)
(* pc names the last operation, calc_result holds what the last          *)
(* update_from_ffmpeg_output returned.                                   *)
(*************************************************************************)
TInit ==
    /\ tracker \in {NewTracker(n) : n \in 0..MaxFrames}
    /\ pc = "t_new"
    /\ calc_result = Return(FALSE)
    /\ entry = "tracker"
    /\ input_files = <<>>
    /\ quality = "medium"
    /\ codec = "libx264"
    /\ target_size_mb = None
    /\ compression_ratio = None
    /\ preserve_metadata = TRUE
    /\ show_progress = TRUE
    /\ args = NoArgs
    /\ raised = "none"
    /\ idx = 1
    /\ results = NoResults
    /\ info = NoInfo
    /\ output_path = ""
    /\ settings = NoSettings
    /\ cmd = <<>>
    /\ dir_exists = FALSE
    /\ probes = 0
    /\ launches = 0
    /\ child = NoChild
    /\ stderr_pipe = <<>>
    /\ output = <<>>
    /\ run_result = "unset"
    /\ error_log = NoLog
    /\ orphans = 0

trackerRest == <<input_files, quality, codec, target_size_mb, compression_ratio,
                 preserve_metadata, entry, show_progress, args, raised, idx,
                 results, info, output_path, settings, cmd, dir_exists, probes,
                 launches, child, stderr_pipe, output, run_result, error_log,
                 orphans>>

\* tracker.start()
TStart ==
    /\ tracker' = start(tracker)
    /\ pc' = "t_start"
    /\ UNCHANGED <<calc_result, trackerRest>>

\* tracker.update_from_ffmpeg_output(line): True exactly when the branch that
\* assigns current_frame was taken.
TUpdate ==
    \E line \in SampleLines :
        /\ tracker' = update_from_ffmpeg_output(tracker, line)
        /\ calc_result' = Return(/\ BarTruthy(tracker)
                                 /\ FrameMatch(line) # -1
                                 /\ Min(FrameMatch(line), tracker.total_frames)
                                        > tracker.current_frame)
        /\ pc' = "t_update"
        /\ UNCHANGED trackerRest

\* tracker.set_progress(current)
TSetProgress ==
    \E current \in -1..(MaxFrames + 1) :
        /\ tracker' = set_progress(tracker, current)
        /\ pc' = "t_set"
        /\ UNCHANGED <<calc_result, trackerRest>>

\* tracker.increment(amount); the guard keeps current_frame from falling
\* without bound under negative amounts.
TIncrement ==
    \E amount \in {-1, 1, 2} :
        /\ tracker.current_frame + amount >= -1
        /\ tracker' = increment(tracker, amount)
        /\ pc' = "t_incr"
        /\ UNCHANGED <<calc_result, trackerRest>>

\* tracker.complete()
TComplete ==
    /\ tracker' = complete(tracker)
    /\ pc' = "t_complete"
    /\ UNCHANGED <<calc_result, trackerRest>>

\* tracker.close()
TClose ==
    /\ tracker' = close(tracker)
    /\ pc' = "t_close"
    /\ UNCHANGED <<calc_result, trackerRest>>

TNext == TStart \/ TUpdate \/ TSetProgress \/ TIncrement \/ TComplete \/ TClose

SpecTracker == TInit /\ [][TNext]_vars

\* C30: with total_frames >= 0, every operation of a ProgressTracker leaves
\* current_frame <= total_frames, and an operation on a tracker whose bar is
\* not started or is closed leaves current_frame unchanged, a call of
\* update_from_ffmpeg_output returning False.
C30_TrackerBounded ==
    [][/\ tracker'.current_frame <= tracker'.total_frames
       /\ tracker.progress_bar = "None" =>
             /\ tracker'.current_frame = tracker.current_frame
             /\ pc' = "t_update" => calc_result' = Return(FALSE)]_vars

\* A closed tracker that keeps a progress above zero through a refused update.
C30_Witness ==
    /\ pc = "t_update"
    /\ tracker.progress_bar = "None"
    /\ tracker.current_frame = 2
    /\ tracker.total_frames = 3
    /\ calc_result = Return(FALSE)

(*************************************************************************)
(* One call of compress_video in progress-tracked mode, with a child     *)
(* that also writes to its standard output.  Spec leaves those writes    *)
(* out: its children write diagnostics only.                             *)
(*************************************************************************)
RInit == Init /\ entry = "single" /\ show_progress /\ dir_exists

RNext ==
    \/ CompressVideo
    \/ SpawnEncoder
    \/ ChildWrite
    \/ ChildBeginStdout
    \/ ChildWriteStdout
    \/ ChildExit
    \/ ReadLine
    \/ ReadEOF
    \/ ReadError
    \/ RunnerReturn
    \/ RecordResult

SpecRunner == RInit /\ [][RNext]_vars

\* The runner is a thread of a running Python process: a turn of its loop
\* that can be taken is taken, and so is the return after the loop.  Nothing
\* is assumed of the child.
SpecRunnerFair ==
    /\ RInit
    /\ [][RNext]_vars
    /\ WF_vars(ReadLine)
    /\ WF_vars(ReadEOF)
    /\ WF_vars(RunnerReturn)

\* C24: once the child has exited, its diagnostic stream then reaching end
\* of file after the lines still in the pipe, _run_ffmpeg_with_progress
\* eventually leaves its loop and returns a result, whatever finite sequence
\* of lines the child wrote.
C24_RunnerTerminates ==
    (pc = "read" /\ child.state = "exited") ~> (run_result # "unset")

\* The runner has returned True after reading every line of an exited child.
C24_Witness ==
    /\ entry = "single"
    /\ pc = "ran"
    /\ run_result = "True"
    /\ child.state = "exited"
    /\ child.written = MaxLines
    /\ stderr_pipe = <<>>
    /\ tracker.current_frame > 0

\* C28: the progress-tracked runner never deadlocks, whatever the child
\* writes to its two pipes: while the runner waits in readline on an empty
\* diagnostic pipe, the running child is not blocked in a write to its full
\* standard-output pipe, which nobody reads.
C28_NoDeadlock ==
    (pc = "read" /\ stderr_pipe = <<>> /\ child.state = "running") =>
        ~(child.stdout_left > 0 /\ child.stdout_pipe = PipeCap)

=============================================================================
